---- MODULE Spec2Model ----
(***************************************************************************)
(* trusted-signing-cli: the provisioning and invocation pipeline of        *)
(* src/main.rs.  A run of the tool (main -> run) validates the two tool    *)
(* paths, creates the configuration directory, provisions the signing      *)
(* client library, writes metadata.json, logs in with the azure cli and    *)
(* invokes signtool once per file.  The workspace on disk is shared by     *)
(* all runs; everything else is the memory of one process.                 *)
(***************************************************************************)
EXTENDS Integers, Sequences, FiniteSets, TLC

\* ------------------------------------------------------------------ bounds
\* longest file list of a run (the code accepts 1..=99 files)
MaxFiles == 3
\* number of runs launched in one behaviour
MaxRuns == 2

\* ------------------------------------------------------------------ inputs
\* A path or file name is the sequence of its lexical tokens: "/" separates
\* components, "." is a dot, every other token is a run of ordinary characters.
a_exe == <<"a", ".", "exe">>
b_unknownext == <<"b", ".", "unknownext">>

FileNames == {a_exe, b_unknownext}

FileLists == UNION {[1..n -> FileNames] : n \in 1..MaxFiles}

Endpoints == {"https://eus.codesigning.azure.net", "https://wus2.codesigning.azure.net"}
Accounts == {"mnr", "acct2"}
Certificates == {"Profile3", "Profile4"}
\* Option<String>: <<>> is None, <<d>> is Some(d)
Descriptions == {<<>>, <<"My Installer">>}
\* The service principal's credentials.
Secrets == {"secret-one", "secret-two"}
ClientIds == {"client-id"}
TenantIds == {"tenant-id"}

\* The fields of Args that run() reads.
ArgsSet ==
    [file : FileLists,
     ignore_unsupported : BOOLEAN,
     endpoint : Endpoints,
     account : Accounts,
     certificate : Certificates,
     description : Descriptions,
     azure_client_secret : Secrets,
     azure_client_id : ClientIds,
     azure_tenant_id : TenantIds]

NoArgs ==
    [file |-> <<>>, ignore_unsupported |-> FALSE, endpoint |-> "", account |-> "",
     certificate |-> "", description |-> <<>>, azure_client_secret |-> "",
     azure_client_id |-> "", azure_tenant_id |-> ""]

\* What the machine answers to the run's probes: whether the two executables
\* exist at the configured paths and whether a home directory can be found.
EnvSet == [azure_cli_exists : BOOLEAN, sign_tool_exists : BOOLEAN, home_dir : BOOLEAN]

NoEnv == [azure_cli_exists |-> FALSE, sign_tool_exists |-> FALSE, home_dir |-> FALSE]

Procs == {"p1", "p2"}

\* ------------------------------------------------------------------- paths
join(path, component) == path \o <<"/">> \o component

home == <<"~">>

config_dir == join(home, <<".", "trusted-signing-cli">>)

lib_dir == join(config_dir, <<"lib">>)

lib_path ==
    join(join(join(lib_dir, <<"bin">>), <<"x64">>),
         <<"Azure", ".", "CodeSigning", ".", "Dlib", ".", "dll">>)

metadata_path == join(config_dir, <<"metadata", ".", "json">>)

\* The entries of the package as they land under lib/: the marker file and
\* everything else.
MarkerEntry == "bin/x64/Azure.CodeSigning.Dlib.dll"

PackageEntries == {MarkerEntry, "bin/x64/(other package files)"}

\* ------------------------------------------------------------ is_supported
supported_extensions ==
    {"appx", "msix", "appxbundle", "msixbundle", "cab", "cat", "dll", "exe", "js",
     "vbs", "wsf", "msi", "msp", "mst", "ocx", "ps1", "stl", "sys"}

\* Positions of token t in s.
Positions(s, t) == {k \in 1..Len(s) : s[k] = t}

Last(S) == CHOOSE k \in S : \A j \in S : j <= k

\* Path::components drops trailing separators and trailing "." components.
RECURSIVE trim_trailing(_)
trim_trailing(path) ==
    LET n == Len(path)
    IN IF n >= 2 /\ path[n] = "/" THEN trim_trailing(SubSeq(path, 1, n - 1))
       ELSE IF n >= 3 /\ path[n] = "." /\ path[n - 1] = "/"
              THEN trim_trailing(SubSeq(path, 1, n - 2))
              ELSE path

\* Path::file_name: the final component, None (<<>>) when the path ends in "..".
file_name(path) ==
    LET trimmed == trim_trailing(path)
        slashes == Positions(trimmed, "/")
        name == IF slashes = {} THEN trimmed
                ELSE SubSeq(trimmed, Last(slashes) + 1, Len(trimmed))
    IN IF name = <<".", ".">> THEN <<>> ELSE name

\* Path::extension: the part of the file name after its last dot; None (<<>>)
\* when there is no file name, no dot, or nothing before the only dot.
extension(path) ==
    LET name == file_name(path)
        dots == Positions(name, ".")
    IN IF dots = {} \/ Last(dots) = 1 THEN <<>>
       ELSE SubSeq(name, Last(dots) + 1, Len(name))

\* extension.to_str().unwrap_or_default()
to_str(ext) == IF ext = <<>> THEN "" ELSE ext[1]

\* Mutant: the extension is compared without regard to case.
lower(word) ==
    CASE word \in {"EXE", "Exe"} -> "exe"
      [] word = "Msix" -> "msix"
      [] OTHER -> word

is_supported_ignoring_case(file) == lower(to_str(extension(file))) \in supported_extensions

is_supported(file) == to_str(extension(file)) \in supported_extensions

\* ---------------------------------------------------------------- Metadata
\* Mutant: the client secret is stored as the account name.
Metadata_with_secret(a) ==
    [endpoint |-> a.endpoint,
     code_signing_account_name |-> a.azure_client_secret,
     certificate_profile |-> a.certificate]

Metadata(a) ==
    [endpoint |-> a.endpoint,
     code_signing_account_name |-> a.account,
     certificate_profile |-> a.certificate]

\* serde_json::to_string: the object's members in declaration order, each
\* under its serde(rename) key.
to_string(data) ==
    << <<"Endpoint", data.endpoint>>,
       <<"CodeSigningAccountName", data.code_signing_account_name>>,
       <<"CertificateProfileName", data.certificate_profile>> >>

\* ------------------------------------------------------------------- state
VARIABLES
    config_dir_exists,  \* disk: ~/.trusted-signing-cli exists
    archive,            \* disk: the downloaded archive 1.0.95: "none", "partial", "full"
    lib,                \* disk: the entries present under lib/
    metadata_file,      \* disk: metadata.json, [exists, content]
    runs,               \* number of runs launched so far
    download_calls,     \* number of times the downloader was invoked, all runs
    extract_calls,      \* number of times zip_extract was invoked, all runs
    pc,                 \* per process: position in main/run
    args,               \* per process: the parsed Args
    env,                \* per process: answers of the machine to this run
    trace,              \* per process: the steps this run has performed
    err,                \* per process: the Err(String) of run()
    exit_code,          \* per process: exit status, -1 while running
    idx,                \* per process: position of the for loop in args.file
    cmd_args,           \* per process: the argument template
    ws0,                \* per process: the workspace as it was at launch
    dmdf_read,          \* per process: metadata.json as each signtool invocation read it
    queried,            \* a file name handed to is_supported
    verdict             \* what is_supported returned for it: <<>> before the call, <<b>> after

disk == <<config_dir_exists, archive, lib, metadata_file>>
counters == <<runs, download_calls, extract_calls>>
proc == <<pc, args, env, trace, err, exit_code, idx, cmd_args, ws0, dmdf_read>>
classifier == <<queried, verdict>>
vars == <<disk, counters, proc, classifier>>

Workspace ==
    [config_dir |-> config_dir_exists, archive |-> archive, lib |-> lib,
     metadata |-> metadata_file]

NoFile == [exists |-> FALSE, content |-> <<>>]

NoWorkspace ==
    [config_dir |-> FALSE, archive |-> "none", lib |-> {}, metadata |-> NoFile]

NoErr == [kind |-> "none", subject |-> <<>>]

Terminal == {"Success", "Failed", "Panicked"}

\* One step of a run as recorded in trace.
Event(op, ok, i, argv) == [op |-> op, ok |-> ok, idx |-> i, argv |-> argv]

Log(p, e) == trace' = [trace EXCEPT ![p] = Append(@, e)]

\* A fresh machine on which no process of the tool runs.
InitRuns ==
    /\ config_dir_exists = FALSE
    /\ archive = "none"
    /\ lib = {}
    /\ metadata_file = NoFile
    /\ runs = 0
    /\ download_calls = 0
    /\ extract_calls = 0
    /\ pc = [p \in Procs |-> "idle"]
    /\ args = [p \in Procs |-> NoArgs]
    /\ env = [p \in Procs |-> NoEnv]
    /\ trace = [p \in Procs |-> <<>>]
    /\ err = [p \in Procs |-> NoErr]
    /\ exit_code = [p \in Procs |-> -1]
    /\ idx = [p \in Procs |-> 0]
    /\ cmd_args = [p \in Procs |-> <<>>]
    /\ ws0 = [p \in Procs |-> NoWorkspace]
    /\ dmdf_read = [p \in Procs |-> <<>>]

Init ==
    /\ InitRuns
    /\ queried = <<>>
    /\ verdict = <<>>

\* ------------------------------------------------------------------- main
\* Err(err) => eprintln!(..); std::process::exit(1)
Fail(p, kind, subject) ==
    /\ pc' = [pc EXCEPT ![p] = "Failed"]
    /\ err' = [err EXCEPT ![p] = [kind |-> kind, subject |-> subject]]
    /\ exit_code' = [exit_code EXCEPT ![p] = 1]

\* expect() on None panics: the process dies with the panic status 101.
Panic(p) ==
    /\ pc' = [pc EXCEPT ![p] = "Panicked"]
    /\ err' = [err EXCEPT ![p] = [kind |-> "panic", subject |-> <<>>]]
    /\ exit_code' = [exit_code EXCEPT ![p] = 101]

\* Mutant: a run that signed nothing is reported as a failure.
Succeed_requires_signature(p) ==
    IF \E j \in 1..Len(trace[p]) : trace[p][j].op = "sign"
      THEN /\ pc' = [pc EXCEPT ![p] = "Success"]
           /\ exit_code' = [exit_code EXCEPT ![p] = 0]
           /\ UNCHANGED err
      ELSE /\ pc' = [pc EXCEPT ![p] = "Failed"]
           /\ err' = [err EXCEPT ![p] = [kind |-> "nothing_signed", subject |-> <<>>]]
           /\ exit_code' = [exit_code EXCEPT ![p] = 1]

\* Mutant: after Ok(()) the runtime waits for a task that never completes.
Succeed_never_returns(p) ==
    /\ pc' = [pc EXCEPT ![p] = "runtime_shutdown"]
    /\ UNCHANGED <<err, exit_code>>

\* Ok(_) => (): main returns, exit status 0
Succeed(p) ==
    /\ pc' = [pc EXCEPT ![p] = "Success"]
    /\ exit_code' = [exit_code EXCEPT ![p] = 0]
    /\ UNCHANGED err

Goto(p, label) ==
    /\ pc' = [pc EXCEPT ![p] = label]
    /\ UNCHANGED <<err, exit_code>>

\* A process is started with parsed arguments drawn from A on a machine
\* drawn from E: Args::parse(), then run(args).
LaunchWith(p, A, E) ==
    /\ pc[p] = "idle"
    /\ runs < MaxRuns
    /\ runs' = runs + 1
    /\ \E a \in A, e \in E :
          /\ args' = [args EXCEPT ![p] = a]
          /\ env' = [env EXCEPT ![p] = e]
    /\ pc' = [pc EXCEPT ![p] = "check_azure_cli"]
    /\ trace' = [trace EXCEPT ![p] = <<>>]
    /\ err' = [err EXCEPT ![p] = NoErr]
    /\ exit_code' = [exit_code EXCEPT ![p] = -1]
    /\ idx' = [idx EXCEPT ![p] = 0]
    /\ cmd_args' = [cmd_args EXCEPT ![p] = <<>>]
    /\ ws0' = [ws0 EXCEPT ![p] = Workspace]
    /\ dmdf_read' = [dmdf_read EXCEPT ![p] = <<>>]
    /\ UNCHANGED <<disk, download_calls, extract_calls, classifier>>

Launch(p) == LaunchWith(p, ArgsSet, EnvSet)

\* Runs in succession: a run starts when no other run is in progress.
Start ==
    /\ \A q \in Procs : pc[q] = "idle"
    /\ Launch("p1")

\* The process has ended (main returned, exit(1) or the panic): its memory
\* is gone, the workspace stays.
Exit(p) ==
    /\ pc[p] \in Terminal
    /\ pc' = [pc EXCEPT ![p] = "idle"]
    /\ args' = [args EXCEPT ![p] = NoArgs]
    /\ env' = [env EXCEPT ![p] = NoEnv]
    /\ trace' = [trace EXCEPT ![p] = <<>>]
    /\ err' = [err EXCEPT ![p] = NoErr]
    /\ exit_code' = [exit_code EXCEPT ![p] = -1]
    /\ idx' = [idx EXCEPT ![p] = 0]
    /\ cmd_args' = [cmd_args EXCEPT ![p] = <<>>]
    /\ ws0' = [ws0 EXCEPT ![p] = NoWorkspace]
    /\ dmdf_read' = [dmdf_read EXCEPT ![p] = <<>>]
    /\ UNCHANGED <<disk, counters, classifier>>

\* -------------------------------------------------------------------- run
azure_cli_path == <<"az", ".", "cmd">>

sign_tool_path == <<"signtool", ".", "exe">>

locals == <<args, env, ws0, classifier>>

\* Mutant: the first check probes the signtool path.
azure_cli_missing_wrong_path(p) == ~env[p].sign_tool_exists

\* fs::metadata(&args.azure_cli_path).is_err()
azure_cli_missing(p) == ~env[p].azure_cli_exists

CheckAzureCli(p) ==
    /\ pc[p] = "check_azure_cli"
    /\ Log(p, Event("check_azure_cli", ~azure_cli_missing(p), 0, <<>>))
    /\ IF azure_cli_missing(p)
         THEN Fail(p, "azure_cli_missing", azure_cli_path)
         ELSE Goto(p, "check_sign_tool")
    /\ UNCHANGED <<disk, counters, locals, dmdf_read, idx, cmd_args>>

\* Mutant: the second check probes the azure cli path again.
sign_tool_missing_wrong_path(p) == ~env[p].azure_cli_exists

\* fs::metadata(&args.sign_tool_path).is_err()
sign_tool_missing(p) == ~env[p].sign_tool_exists

CheckSignTool(p) ==
    /\ pc[p] = "check_sign_tool"
    /\ Log(p, Event("check_sign_tool", ~sign_tool_missing(p), 0, <<>>))
    /\ IF sign_tool_missing(p)
         THEN Fail(p, "sign_tool_missing", sign_tool_path)
         ELSE Goto(p, "home_dir")
    /\ UNCHANGED <<disk, counters, locals, dmdf_read, idx, cmd_args>>

\* BaseDirs::new().expect("could not find home directory")
ResolveHome(p) ==
    /\ pc[p] = "home_dir"
    /\ Log(p, Event("home_dir", env[p].home_dir, 0, <<>>))
    /\ IF env[p].home_dir THEN Goto(p, "create_config_dir") ELSE Panic(p)
    /\ UNCHANGED <<disk, counters, locals, dmdf_read, idx, cmd_args>>

\* if !config_dir.exists() { fs::create_dir_all(&config_dir).map_err(..)? }
CreateConfigDir(p) ==
    /\ pc[p] = "create_config_dir"
    /\ IF config_dir_exists
         THEN /\ Goto(p, "check_lib")
              /\ UNCHANGED <<config_dir_exists, trace>>
         ELSE \E ok \in BOOLEAN :
                /\ Log(p, Event("create_dir_all", ok, 0, <<>>))
                /\ config_dir_exists' = ok
                /\ IF ok THEN Goto(p, "check_lib") ELSE Fail(p, "config_dir", config_dir)
    /\ UNCHANGED <<archive, lib, metadata_file, counters, locals, dmdf_read, idx, cmd_args>>

\* Mutant: the presence check is lost, the library is always provisioned.
library_present_unchecked == FALSE

\* lib_path.exists()
library_present == MarkerEntry \in lib

\* Mutant: the check waits while another process provisions the library.
CheckLib_locked(p) ==
    /\ pc[p] = "check_lib"
    /\ \A q \in Procs \ {p} : pc[q] \notin {"download", "extract"}
    /\ IF library_present THEN Goto(p, "write_metadata") ELSE Goto(p, "download")
    /\ UNCHANGED <<disk, counters, locals, dmdf_read, trace, idx, cmd_args>>

\* if !lib_path.exists() { download; extract }
CheckLib(p) ==
    /\ pc[p] = "check_lib"
    /\ IF library_present THEN Goto(p, "write_metadata") ELSE Goto(p, "download")
    /\ UNCHANGED <<disk, counters, locals, dmdf_read, trace, idx, cmd_args>>

\* Download::try_from(link) cannot fail on the constant link.  The summaries
\* that downloader.download(&downloads).await returns are dropped, so the run
\* goes on to the extraction whatever the transfer did.  A failed transfer
\* leaves the archive as it was or incomplete.
Download(p) ==
    /\ pc[p] = "download"
    /\ download_calls' = download_calls + 1
    /\ \E ok \in BOOLEAN :
          /\ Log(p, Event("download", ok, 0, <<>>))
          /\ archive' \in (IF ok THEN {"full"} ELSE {archive, "partial"})
    /\ Goto(p, "extract")
    /\ UNCHANGED <<config_dir_exists, lib, metadata_file, runs, extract_calls,
                   locals, dmdf_read, idx, cmd_args>>

\* zip_extract(&archive, &target_dir).map_err(..)?  It succeeds only on a
\* complete archive; an error may leave any part of the package extracted.
Extract(p) ==
    /\ pc[p] = "extract"
    /\ extract_calls' = extract_calls + 1
    /\ \/ /\ archive = "full"
          /\ lib' = lib \cup PackageEntries
          /\ Log(p, Event("extract", TRUE, 0, <<>>))
          /\ Goto(p, "write_metadata")
       \/ /\ \E written \in SUBSET PackageEntries :
                /\ archive # "full" => written = {}
                /\ lib' = lib \cup written
          /\ Log(p, Event("extract", FALSE, 0, <<>>))
          /\ Fail(p, "unzip", join(config_dir, <<"1", ".", "0", ".", "95">>))
    /\ UNCHANGED <<config_dir_exists, archive, metadata_file, runs, download_calls,
                   locals, dmdf_read, idx, cmd_args>>

\* Mutant: the file is opened for appending.
fs_write_append(file, contents) == [exists |-> TRUE, content |-> file.content \o contents]

\* fs::write(path, contents): the file at path is created or truncated and
\* holds contents afterwards.
fs_write(file, contents) == [exists |-> TRUE, content |-> contents]

\* Mutant: metadata.json is written only when it does not exist yet.
WriteMetadata_if_absent(p) ==
    /\ pc[p] = "write_metadata"
    /\ IF metadata_file.exists
         THEN /\ Goto(p, "login")
              /\ UNCHANGED <<metadata_file, trace>>
         ELSE \E ok \in BOOLEAN :
                /\ Log(p, Event("write_metadata", ok, 0, <<>>))
                /\ IF ok
                     THEN /\ metadata_file' = fs_write(metadata_file, to_string(Metadata(args[p])))
                          /\ Goto(p, "login")
                     ELSE /\ metadata_file' \in {metadata_file, fs_write(metadata_file, <<>>)}
                          /\ Fail(p, "metadata_write", metadata_path)
    /\ UNCHANGED <<config_dir_exists, archive, lib, counters, locals, dmdf_read, idx, cmd_args>>

\* fs::write(config_dir.join("metadata.json"), serde_json::to_string(&data)?)?
\* An error of fs::write leaves the file as it was, or created and empty.
WriteMetadata(p) ==
    /\ pc[p] = "write_metadata"
    /\ \E ok \in BOOLEAN :
          /\ Log(p, Event("write_metadata", ok, 0, <<>>))
          /\ IF ok
               THEN /\ metadata_file' = fs_write(metadata_file, to_string(Metadata(args[p])))
                    /\ Goto(p, "login")
               ELSE /\ metadata_file' \in {metadata_file, fs_write(metadata_file, <<>>)}
                    /\ Fail(p, "metadata_write", metadata_path)
    /\ UNCHANGED <<config_dir_exists, archive, lib, counters, locals, dmdf_read, idx, cmd_args>>

\* Mutant: the result of the login is dropped.
login_result_unchecked(p, ok) == Goto(p, "build_cmd_args")

\* cmd!(az, "login", ..).run().map_err(..)?
login_result(p, ok) ==
    IF ok THEN Goto(p, "build_cmd_args") ELSE Fail(p, "login", azure_cli_path)

\* The argument vector of the login: only here are the credentials used.
login_args(a) ==
    << <<"login">>, <<"--service-principal">>, <<"-t">>, <<a.azure_tenant_id>>,
       <<"-u">>, <<a.azure_client_id>>, <<"-p">>, <<a.azure_client_secret>> >>

Login(p) ==
    /\ pc[p] = "login"
    /\ \E ok \in BOOLEAN :
          /\ Log(p, Event("login", ok, 0, login_args(args[p])))
          /\ login_result(p, ok)
    /\ UNCHANGED <<disk, counters, locals, dmdf_read, idx, cmd_args>>

\* Mutant: the values of /dlib and /dmdf are exchanged.
build_cmd_args_swapped_paths(a) ==
    << <<"sign">>, <<"/v">>, <<"/fd">>, <<"SHA256">>, <<"/tr">>,
       <<"http://timestamp.acs.microsoft.com">>, <<"/td">>, <<"SHA256">>,
       <<"/dlib">>, metadata_path, <<"/dmdf">>, lib_path >>
    \o (IF a.description = <<>> THEN <<>> ELSE << <<"/d">>, a.description >>)

\* let mut cmd_args = vec![..]; if let Some(description) = .. { push; push }
\* Every argument is a token sequence; a flag is one token.
build_cmd_args(a) ==
    << <<"sign">>, <<"/v">>, <<"/fd">>, <<"SHA256">>, <<"/tr">>,
       <<"http://timestamp.acs.microsoft.com">>, <<"/td">>, <<"SHA256">>,
       <<"/dlib">>, lib_path, <<"/dmdf">>, metadata_path >>
    \o (IF a.description = <<>> THEN <<>> ELSE << <<"/d">>, a.description >>)

BuildCmdArgs(p) ==
    /\ pc[p] = "build_cmd_args"
    /\ cmd_args' = [cmd_args EXCEPT ![p] = build_cmd_args(args[p])]
    /\ idx' = [idx EXCEPT ![p] = 1]
    /\ Goto(p, "sign")
    /\ UNCHANGED <<disk, counters, locals, dmdf_read, trace>>

\* Mutant: unsupported files are skipped whatever the flag says.
skips_regardless_of_flag(a, file) == ~is_supported(file)

\* if args.ignore_unsupported { if !is_supported(&file) { continue; } }
skips(a, file) == a.ignore_unsupported /\ ~is_supported(file)

\* The loop moves to the next file; after the last one run returns Ok(()).
Continue(p) ==
    /\ idx' = [idx EXCEPT ![p] = @ + 1]
    /\ IF idx[p] = Len(args[p].file) THEN Succeed(p) ELSE Goto(p, "sign")

\* Mutant: a failed invocation is dropped and the loop goes on.
sign_result_best_effort(p, file, ok) == Continue(p)

\* Mutant: a failed invocation is tried again.
sign_result_retry(p, file, ok) ==
    (IF ok THEN Continue(p) ELSE Goto(p, "sign") /\ UNCHANGED idx)

\* cmd(signtool, cmd_args + file).run().map_err(..)?
sign_result(p, file, ok) ==
    IF ok THEN Continue(p) ELSE Fail(p, "sign", file) /\ UNCHANGED idx

\* One iteration of: for file in args.file { .. }
\* Mutant: the file is pushed onto cmd_args itself.
SignFile_push(p) ==
    /\ pc[p] = "sign"
    /\ LET file == args[p].file[idx[p]]
       IN IF skips(args[p], file)
            THEN Continue(p) /\ UNCHANGED <<trace, dmdf_read, cmd_args>>
            ELSE \E ok \in BOOLEAN :
                   /\ cmd_args' = [cmd_args EXCEPT ![p] = Append(@, file)]
                   /\ Log(p, Event("sign", ok, idx[p], cmd_args'[p]))
                   /\ dmdf_read' = [dmdf_read EXCEPT ![p] = Append(@, metadata_file)]
                   /\ sign_result(p, file, ok)
    /\ UNCHANGED <<disk, counters, locals>>

\* signtool reads the file named by /dmdf while it runs.
SignFile(p) ==
    /\ pc[p] = "sign"
    /\ LET file == args[p].file[idx[p]]
       IN IF skips(args[p], file)
            THEN Continue(p) /\ UNCHANGED <<trace, dmdf_read>>
            ELSE \E ok \in BOOLEAN :
                   /\ Log(p, Event("sign", ok, idx[p], cmd_args[p] \o <<file>>))
                   /\ dmdf_read' = [dmdf_read EXCEPT ![p] = Append(@, metadata_file)]
                   /\ sign_result(p, file, ok)
    /\ UNCHANGED <<disk, counters, locals, cmd_args>>

Step(p) ==
    \/ CheckAzureCli(p)
    \/ CheckSignTool(p)
    \/ ResolveHome(p)
    \/ CreateConfigDir(p)
    \/ CheckLib(p)
    \/ Download(p)
    \/ Extract(p)
    \/ WriteMetadata(p)
    \/ Login(p)
    \/ BuildCmdArgs(p)
    \/ SignFile(p)
    \/ Exit(p)

Next == Start \/ \E p \in Procs : Step(p)

Spec == Init /\ [][Next]_vars

\* ----------------------------------------------------- reading a run's trace
Running(p) == pc[p] # "idle"

\* The positions of trace[p] that hold a step op.
At(p, op) == {j \in 1..Len(trace[p]) : trace[p][j].op = op}

Did(p, op) == \E j \in At(p, op) : trace[p][j].ok

Failed(p, op) == \E j \in At(p, op) : ~trace[p][j].ok

\* The sign invocations of the run, in the order they were made.
Signs(p) == SelectSeq(trace[p], LAMBDA e : e.op = "sign")

\* The file argument of a sign invocation: the last element of its argv.
FileArg(e) == e.argv[Len(e.argv)]

SignedFiles(p) == [j \in 1..Len(Signs(p)) |-> FileArg(Signs(p)[j])]

SignedPositions(p) == [j \in 1..Len(Signs(p)) |-> Signs(p)[j].idx]

Increasing(s) == \A i, j \in 1..Len(s) : i < j => s[i] < s[j]

Range(s) == {s[j] : j \in 1..Len(s)}

\* Position i of the input list is to be signed: the file is not skipped.
ToBeSigned(a, i) == ~a.ignore_unsupported \/ is_supported(a.file[i])

\* serde_json::from_str on the file content: the value stored under key.
Keys(content) == {content[j][1] : j \in 1..Len(content)}

Field(content, key) ==
    LET at == {j \in 1..Len(content) : content[j][1] = key}
    IN IF at = {} THEN "" ELSE content[Last(at)][2]

\* ------------------------------------------------------------------ claims

\* C1: batch abort.  If the sign invocation for the file at position k fails,
\* the sign invocations made by the run are exactly those of the non-skipped
\* positions 1..k in input order (each with its own file as the file
\* argument), the failing one is the last step of the run, the run has failed
\* with exit status 1 and the error names the file at position k.
C1_BatchAbort ==
    \A p \in Procs : \A j \in At(p, "sign") :
        LET k == trace[p][j].idx
        IN ~trace[p][j].ok =>
             /\ j = Len(trace[p])
             /\ pc[p] = "Failed"
             /\ exit_code[p] = 1
             /\ err[p] = [kind |-> "sign", subject |-> args[p].file[k]]
             /\ Increasing(SignedPositions(p))
             /\ Range(SignedPositions(p)) = {i \in 1..k : ToBeSigned(args[p], i)}
             /\ \A n \in 1..Len(Signs(p)) :
                    FileArg(Signs(p)[n]) = args[p].file[Signs(p)[n].idx]

\* The second of three files fails after the first was signed.
C1_Witness ==
    \E p \in Procs :
        /\ Len(args[p].file) = 3
        /\ Len(Signs(p)) = 2
        /\ Signs(p)[1].ok /\ Signs(p)[1].idx = 1
        /\ ~Signs(p)[2].ok /\ Signs(p)[2].idx = 2
        /\ pc[p] = "Failed"

\* C2: no signing without authentication.  Every sign invocation of a run
\* comes after a login invocation of the same run that succeeded; when the
\* login fails the run has failed with a login error and has made no sign
\* invocation.
C2_NoSignWithoutLogin ==
    \A p \in Procs :
        /\ \A j \in At(p, "sign") : \E i \in At(p, "login") : i < j /\ trace[p][i].ok
        /\ Failed(p, "login") =>
             /\ pc[p] = "Failed"
             /\ err[p].kind = "login"
             /\ At(p, "sign") = {}

C2_Witness ==
    \E p \in Procs : Did(p, "login") /\ Did(p, "sign")

\* C5: path validation precedes provisioning.  In a run whose azure cli
\* executable does not exist, the only step ever taken is the check itself:
\* the workspace is as it was at launch, nothing was downloaded, extracted,
\* written, and neither login nor signtool was invoked; the run ends failed
\* with the azure-cli-missing error.
C5_AzureCliCheckedFirst ==
    \A p \in Procs :
        (Running(p) /\ ~env[p].azure_cli_exists) =>
            /\ Workspace = ws0[p]
            /\ \A j \in 1..Len(trace[p]) : trace[p][j].op = "check_azure_cli"
            /\ pc[p] \in {"check_azure_cli", "Failed"}
            /\ pc[p] = "Failed" =>
                 /\ err[p] = [kind |-> "azure_cli_missing", subject |-> azure_cli_path]
                 /\ exit_code[p] = 1

\* The run failed on the missing azure cli in a workspace that a previous
\* run had populated.
C5_Witness ==
    \E p \in Procs :
        /\ pc[p] = "Failed"
        /\ ~env[p].azure_cli_exists
        /\ env[p].sign_tool_exists
        /\ ws0[p].config_dir

\* C6: skip policy.  A run that ends in success has invoked signtool on the
\* input list in input order when ignore_unsupported is off, and on the
\* sublist of the files is_supported accepts when it is on; every invocation
\* succeeded and the exit status is 0.  A run in which no step failed ends
\* in success.
C6_SkipPolicy ==
    \A p \in Procs :
        /\ pc[p] = "Success" =>
             /\ SignedFiles(p) =
                  (IF args[p].ignore_unsupported
                     THEN SelectSeq(args[p].file, is_supported)
                     ELSE args[p].file)
             /\ \A n \in 1..Len(Signs(p)) : Signs(p)[n].ok
             /\ exit_code[p] = 0
             /\ err[p] = NoErr
        /\ (pc[p] \in Terminal /\ \A j \in 1..Len(trace[p]) : trace[p][j].ok) =>
             pc[p] = "Success"

\* [a.exe, b.unknownext] with the flag on: one invocation, for a.exe.
C6_Witness ==
    \E p \in Procs :
        /\ pc[p] = "Success"
        /\ args[p].file = <<a_exe, b_unknownext>>
        /\ args[p].ignore_unsupported
        /\ SignedFiles(p) = <<a_exe>>

\* C9: the metadata write is never skipped.  A run that is past library
\* provisioning and has not failed in the write has written metadata.json,
\* and the write precedes the login and every sign invocation of the run.
C9_MetadataAlwaysWritten ==
    \A p \in Procs :
        /\ (\/ pc[p] \in {"login", "build_cmd_args", "sign", "Success"}
            \/ err[p].kind \in {"login", "sign"}) => Did(p, "write_metadata")
        /\ \A j \in At(p, "login") \cup At(p, "sign") :
               \E i \in At(p, "write_metadata") : i < j /\ trace[p][i].ok

\* A run that found a metadata file in place wrote it again and logged in.
C9_Witness ==
    \E p \in Procs :
        /\ ws0[p].metadata.exists
        /\ ws0[p].metadata.content # <<>>
        /\ Did(p, "write_metadata")
        /\ At(p, "login") # {}

\* C10: the metadata write overwrites.  From the successful write of a run
\* until the run ends, metadata.json holds exactly the three members
\* Endpoint, CodeSigningAccountName and CertificateProfileName, with the
\* values of this run's arguments, whatever an earlier run had written.
C10_MetadataOverwrites ==
    \A p \in Procs :
        Did(p, "write_metadata") =>
            /\ metadata_file.exists
            /\ Len(metadata_file.content) = 3
            /\ Keys(metadata_file.content) =
                 {"Endpoint", "CodeSigningAccountName", "CertificateProfileName"}
            /\ Field(metadata_file.content, "Endpoint") = args[p].endpoint
            /\ Field(metadata_file.content, "CodeSigningAccountName") = args[p].account
            /\ Field(metadata_file.content, "CertificateProfileName") = args[p].certificate

\* The earlier run had written metadata that differs in all three fields.
C10_Witness ==
    \E p \in Procs :
        /\ Did(p, "write_metadata")
        /\ Len(ws0[p].metadata.content) = 3
        /\ Field(ws0[p].metadata.content, "Endpoint") # args[p].endpoint
        /\ Field(ws0[p].metadata.content, "CodeSigningAccountName") # args[p].account
        /\ Field(ws0[p].metadata.content, "CertificateProfileName") # args[p].certificate

\* C4: idempotent provisioning.  A run launched with the marker file in place
\* invokes neither the downloader nor the extraction and leaves lib and the
\* archive as they were; across the runs so far there is at least one run
\* less than calls of either (two runs of which the first created the marker
\* file: at most one call).  No step taken while the marker file exists
\* invokes the downloader or the extraction or changes lib.
C4_IdempotentProvisioning ==
    /\ [](\A p \in Procs :
            (Running(p) /\ MarkerEntry \in ws0[p].lib) =>
                /\ At(p, "download") = {}
                /\ At(p, "extract") = {}
                /\ lib = ws0[p].lib
                /\ archive = ws0[p].archive
                /\ download_calls <= runs - 1
                /\ extract_calls <= runs - 1)
    /\ [][(MarkerEntry \in lib) =>
            (/\ download_calls' = download_calls
             /\ extract_calls' = extract_calls
             /\ lib' = lib
             /\ archive' = archive)]_vars

\* The second of two runs succeeded on the library the first had provisioned.
C4_Witness ==
    \E p \in Procs :
        /\ runs = 2
        /\ pc[p] = "Success"
        /\ MarkerEntry \in ws0[p].lib
        /\ download_calls = 1
        /\ extract_calls = 1

\* C3: library provisioning is atomic for the caller.  When a run launched
\* without the marker file has gone through the provisioning stage, either
\* the marker file is present, or the run has failed with an error that names
\* the step that failed: the download when the transfer failed, the
\* extraction otherwise.
C3_ProvisioningAtomic ==
    \A p \in Procs :
        (Running(p) /\ MarkerEntry \notin ws0[p].lib /\ At(p, "extract") # {}) =>
            \/ MarkerEntry \in lib
            \/ /\ pc[p] = "Failed"
               /\ err[p].kind = (IF Failed(p, "download") THEN "download" ELSE "unzip")

\* C7: exit status.  A run that has ended has exit status 0 when every step
\* it took succeeded and exit status 1 when any step failed.
C7_ExitStatus ==
    \A p \in Procs :
        pc[p] \in Terminal =>
            exit_code[p] = (IF \A j \in 1..Len(trace[p]) : trace[p][j].ok THEN 0 ELSE 1)

\* The stage of the orchestrator a step belongs to.
Stage(op) ==
    CASE op \in {"check_azure_cli", "check_sign_tool"} -> 1
      [] op \in {"home_dir", "create_dir_all"} -> 2
      [] op \in {"download", "extract"} -> 3
      [] op = "write_metadata" -> 4
      [] op = "login" -> 5
      [] op = "sign" -> 6

\* C8: stage order.  The steps of a run follow the order of the stages, a
\* step is taken only after a step that succeeded, and a step that fails is
\* the last of the run, which has then ended in failure.
C8_StageOrder ==
    \A p \in Procs : \A j \in 1..Len(trace[p]) :
        /\ j > 1 => /\ Stage(trace[p][j - 1].op) <= Stage(trace[p][j].op)
                    /\ trace[p][j - 1].ok
        /\ ~trace[p][j].ok => /\ j = Len(trace[p])
                              /\ pc[p] \in {"Failed", "Panicked"}

\* The fixed flags of a sign invocation with their values.
FixedFlags ==
    << <<"sign">>, <<"/v">>, <<"/fd">>, <<"SHA256">>, <<"/tr">>,
       <<"http://timestamp.acs.microsoft.com">>, <<"/td">>, <<"SHA256">>,
       <<"/dlib">>, lib_path, <<"/dmdf">>, metadata_path >>

\* C11: sign invocation template.  Once built, the template of a run is the
\* fixed flags followed by the pair /d, description exactly when a description
\* was supplied, and it stays so through the run; the argument vector of every
\* sign invocation is that template followed by the one file of its position.
C11_Template ==
    \A p \in Procs :
        (pc[p] = "sign" \/ At(p, "sign") # {}) =>
            /\ cmd_args[p] =
                 FixedFlags \o (IF args[p].description = <<>> THEN <<>>
                                ELSE << <<"/d">>, args[p].description >>)
            /\ (<<"/d">> \in Range(cmd_args[p])) <=> (args[p].description # <<>>)
            /\ \A j \in At(p, "sign") :
                   trace[p][j].argv = cmd_args[p] \o <<args[p].file[trace[p][j].idx]>>

\* Two different files were signed in a run that has a description.
C11_Witness ==
    \E p \in Procs :
        /\ args[p].description # <<>>
        /\ Len(Signs(p)) = 2
        /\ FileArg(Signs(p)[1]) # FileArg(Signs(p)[2])

\* The error kind that reports a failure of step op.
KindOf(op) ==
    CASE op = "check_azure_cli" -> "azure_cli_missing"
      [] op = "check_sign_tool" -> "sign_tool_missing"
      [] op = "home_dir" -> "panic"
      [] op = "create_dir_all" -> "config_dir"
      [] op = "download" -> "download"
      [] op = "extract" -> "unzip"
      [] op = "write_metadata" -> "metadata_write"
      [] op = "login" -> "login"
      [] op = "sign" -> "sign"

\* C13: distinguishable failures.  The error of a run that has ended in
\* failure is of the kind of the first step of the run that failed; a failed
\* download is reported as a download failure.
C13_ErrorNamesFailedStage ==
    \A p \in Procs :
        pc[p] \in {"Failed", "Panicked"} =>
            \A j \in 1..Len(trace[p]) :
                (~trace[p][j].ok /\ \A i \in 1..(j - 1) : trace[p][i].ok) =>
                    err[p].kind = KindOf(trace[p][j].op)

\* What a run with a missing signtool may have done: the two checks, nothing
\* else, the workspace as it was at launch.
OnlyValidated(p) ==
    /\ Workspace = ws0[p]
    /\ \A j \in 1..Len(trace[p]) : trace[p][j].op \in {"check_azure_cli", "check_sign_tool"}
    /\ pc[p] \in {"check_azure_cli", "check_sign_tool", "Failed"}

\* C16 as stated: with the signtool executable missing the run does nothing
\* but validate and fails with the error that names the signtool path.
C16_SignToolMissingNamed ==
    \A p \in Procs :
        (Running(p) /\ ~env[p].sign_tool_exists) =>
            /\ OnlyValidated(p)
            /\ pc[p] = "Failed" =>
                 /\ err[p] = [kind |-> "sign_tool_missing", subject |-> sign_tool_path]
                 /\ exit_code[p] = 1

\* C16 amended: with the signtool executable missing the run does nothing but
\* validate and fails; the error names the signtool path when the azure cli
\* exists, and the azure cli path, which is checked first, when it is missing
\* too.
C16_SignToolMissingFails ==
    \A p \in Procs :
        (Running(p) /\ ~env[p].sign_tool_exists) =>
            /\ OnlyValidated(p)
            /\ pc[p] = "Failed" =>
                 /\ err[p] = (IF env[p].azure_cli_exists
                                THEN [kind |-> "sign_tool_missing", subject |-> sign_tool_path]
                                ELSE [kind |-> "azure_cli_missing", subject |-> azure_cli_path])
                 /\ exit_code[p] = 1

\* The run failed on the missing signtool, the azure cli being in place, in
\* a workspace a previous run had populated.
C16_Witness ==
    \E p \in Procs :
        /\ pc[p] = "Failed"
        /\ env[p].azure_cli_exists
        /\ ~env[p].sign_tool_exists
        /\ ws0[p].config_dir

\* C17: no retry.  A run invokes the downloader, the extraction, the metadata
\* write and the login at most once each, and signtool at most once for each
\* position of the input list.
C17_NoRetry ==
    \A p \in Procs :
        /\ \A op \in {"download", "extract", "write_metadata", "login"} :
               Cardinality(At(p, op)) <= 1
        /\ \A i, j \in At(p, "sign") : i # j => trace[p][i].idx # trace[p][j].idx

\* A run ended after a failed sign invocation that followed a failed download.
C17_Witness ==
    \E p \in Procs :
        /\ pc[p] = "Failed"
        /\ Failed(p, "download")
        /\ Failed(p, "sign")

\* The argument that follows flag in argv.
ArgAfter(argv, flag) == argv[(CHOOSE k \in 1..Len(argv) : argv[k] = flag) + 1]

\* C19: with runs in succession, every sign invocation gets the marker file
\* path as /dlib and the path of metadata.json as /dmdf, and metadata.json as
\* the invocation reads it holds the endpoint, account and certificate
\* profile of this run's arguments.
C19_SignSeesOwnMetadata ==
    \A p \in Procs :
        /\ Len(dmdf_read[p]) = Len(Signs(p))
        /\ \A n \in 1..Len(Signs(p)) :
               /\ ArgAfter(Signs(p)[n].argv, <<"/dlib">>) = lib_path
               /\ ArgAfter(Signs(p)[n].argv, <<"/dmdf">>) = metadata_path
               /\ dmdf_read[p][n].exists
               /\ Len(dmdf_read[p][n].content) = 3
               /\ Field(dmdf_read[p][n].content, "Endpoint") = args[p].endpoint
               /\ Field(dmdf_read[p][n].content, "CodeSigningAccountName") = args[p].account
               /\ Field(dmdf_read[p][n].content, "CertificateProfileName") = args[p].certificate

\* Two files were signed in a workspace that held other metadata at launch.
C19_Witness ==
    \E p \in Procs :
        /\ Len(Signs(p)) = 2
        /\ ws0[p].metadata.exists
        /\ Len(ws0[p].metadata.content) = 3
        /\ Field(ws0[p].metadata.content, "Endpoint") # args[p].endpoint

\* Every file of the run is one that the skip policy leaves out.
AllSkipped(a) ==
    /\ a.ignore_unsupported
    /\ \A i \in 1..Len(a.file) : ~is_supported(a.file[i])

\* C20: success does not imply a signature.  A run with ignore_unsupported
\* whose files are all unsupported makes no sign invocation; once its login
\* has succeeded it can only end in success, and when it has ended in
\* success it has a configuration directory, has written metadata.json, has
\* logged in, and exits with status 0.
C20_SuccessWithoutSigning ==
    \A p \in Procs :
        (Running(p) /\ AllSkipped(args[p])) =>
            /\ At(p, "sign") = {}
            /\ (Did(p, "login") /\ pc[p] \in Terminal) => pc[p] = "Success"
            /\ pc[p] = "Success" =>
                 /\ config_dir_exists
                 /\ MarkerEntry \in lib
                 /\ Did(p, "write_metadata")
                 /\ Did(p, "login")
                 /\ exit_code[p] = 0

\* Two unsupported files, the flag on: the run ended in success.
C20_Witness ==
    \E p \in Procs :
        /\ pc[p] = "Success"
        /\ args[p].ignore_unsupported
        /\ args[p].file = <<b_unknownext, b_unknownext>>
        /\ At(p, "sign") = {}
        /\ Did(p, "extract")

\* ------------------------------------------- is_supported on its own
Stems == {"app", "pkg", "driver", "notes"}

\* The extensions the classifier is said to accept.
ClaimedExtensions ==
    {"appx", "msix", "appxbundle", "msixbundle", "cab", "cat", "dll", "exe", "js",
     "vbs", "wsf", "msi", "msp", "mst", "ocx", "ps1", "stl", "sys"}

OtherExtensions == {"txt", "unknownext", "EXE", "Exe", "Msix"}

\* stem.ext
SimpleNames ==
    {<<st, ".", e>> : st \in Stems, e \in ClaimedExtensions \cup OtherExtensions}

BareNames == {<<"README">>, <<"Makefile">>, <<"exe">>}

OddNames ==
    {<<".", "exe">>, <<"app", ".">>, <<".", ".">>,
     <<"app", ".", "tar", ".", "exe">>, <<"app", ".", "exe", ".", "txt">>,
     <<"dir", "/", "app", ".", "exe">>, <<"dir", ".", "exe", "/", "README">>,
     <<"dir", "/", ".", "exe">>, <<"app", ".", "exe", "/">>,
     <<"app", ".", "exe", "/", ".">>, <<"app", ".", "exe", "/", ".", ".">>}

ClassifierInputs == SimpleNames \cup BareNames \cup OddNames

InitClassifier ==
    /\ InitRuns
    /\ queried \in ClassifierInputs
    /\ verdict = <<>>

\* is_supported(&file) is called and returns.
Classify ==
    /\ verdict = <<>>
    /\ verdict' = <<is_supported(queried)>>
    /\ UNCHANGED <<disk, counters, proc, queried>>

SpecClassifier == InitClassifier /\ [][Classify]_vars

\* C12: extension classifier.  is_supported returns a boolean for every file
\* name.  For a name stem.ext it is true exactly when ext, as written, is one
\* of the eighteen extensions; a name without a dot is rejected; an extension
\* is that of the final component and what follows its last dot.
C12_Classifier ==
    verdict # <<>> =>
        /\ verdict[1] \in BOOLEAN
        /\ queried \in SimpleNames => verdict[1] = (queried[3] \in ClaimedExtensions)
        /\ Positions(queried, ".") = {} => verdict[1] = FALSE
        /\ queried \in {<<"app", ".", "exe">>, <<"pkg", ".", "msix">>,
                        <<"driver", ".", "sys">>} => verdict[1] = TRUE
        /\ queried \in {<<"notes", ".", "txt">>, <<"README">>} => verdict[1] = FALSE
        /\ queried \in {<<"app", ".", "tar", ".", "exe">>,
                        <<"dir", "/", "app", ".", "exe">>} => verdict[1] = TRUE
        /\ queried \in {<<"app", ".", "exe", ".", "txt">>,
                        <<"dir", ".", "exe", "/", "README">>} => verdict[1] = FALSE

\* An upper-case variant of a supported extension was rejected.
C12_Witness ==
    /\ queried = <<"driver", ".", "EXE">>
    /\ verdict = <<FALSE>>

\* ------------------------------------------------------------------ secrets
Credentials == {<<c>> : c \in Secrets \cup ClientIds \cup TenantIds}

\* C14: secrets are not persisted.  With runs in succession, metadata.json is
\* at every moment of a run the file found at launch, an empty file left by
\* a failed write, or the three members built from this run's endpoint,
\* account and certificate profile, and the archive and the library hold
\* nothing but the package: no other argument of the run reaches the disk.
\* The credentials are arguments of the login invocation and of no
\* other step, and they are no part of the template.
C14_SecretsNotPersisted ==
    \A p \in Procs :
        Running(p) =>
            /\ metadata_file \in
                 {ws0[p].metadata,
                  [exists |-> TRUE, content |-> <<>>],
                  [exists |-> TRUE,
                   content |-> << <<"Endpoint", args[p].endpoint>>,
                                  <<"CodeSigningAccountName", args[p].account>>,
                                  <<"CertificateProfileName", args[p].certificate>> >>]}
            /\ \A j \in 1..Len(metadata_file.content) :
                   <<metadata_file.content[j][2]>> \notin Credentials
            /\ archive \in {"none", "partial", "full"}
            /\ lib \subseteq PackageEntries
            /\ \A j \in 1..Len(trace[p]) :
                   IF trace[p][j].op = "login"
                     THEN ArgAfter(trace[p][j].argv, <<"-p">>) = <<args[p].azure_client_secret>>
                     ELSE Range(trace[p][j].argv) \cap Credentials = {}
            /\ Range(cmd_args[p]) \cap Credentials = {}

\* A run wrote the metadata an earlier run had written, logged in and signed:
\* the file is as it was at launch.
C14_Witness ==
    \E p \in Procs :
        /\ Did(p, "write_metadata")
        /\ Did(p, "login")
        /\ Did(p, "sign")
        /\ ws0[p].metadata.exists
        /\ Len(ws0[p].metadata.content) = 3
        /\ metadata_file = ws0[p].metadata

\* -------------------------------------------------------- concurrent runs
\* Two processes of the tool at once on one home directory: one file each,
\* both tools and the home directory in place, the endpoint of the metadata
\* free.
ConcArgs ==
    [file : {<<a_exe>>},
     ignore_unsupported : {FALSE},
     endpoint : Endpoints,
     account : {"mnr"},
     certificate : {"Profile3"},
     description : {<<>>},
     azure_client_secret : {"secret-one"},
     azure_client_id : ClientIds,
     azure_tenant_id : TenantIds]

ConcEnv == {[azure_cli_exists |-> TRUE, sign_tool_exists |-> TRUE, home_dir |-> TRUE]}

\* Nothing makes a process wait for another one.
StartConcurrent(p) == LaunchWith(p, ConcArgs, ConcEnv)

NextConc == \E p \in Procs : StartConcurrent(p) \/ Step(p)

SpecConc == Init /\ [][NextConc]_vars

\* C15: no lock guards the workspace.  A run that has not ended can always
\* take its next step, whatever the other run is doing.
C15_NoLock ==
    \A p \in Procs :
        (Running(p) /\ pc[p] \notin Terminal) => ENABLED Step(p)

\* Both runs found the marker file absent and both downloaded and extracted,
\* and one of them invoked signtool while metadata.json held the metadata of
\* the other.
C15_Witness ==
    \E p \in Procs : \E q \in Procs \ {p} :
        /\ At(p, "download") # {} /\ At(p, "extract") # {}
        /\ At(q, "download") # {} /\ At(q, "extract") # {}
        /\ args[p].endpoint # args[q].endpoint
        /\ \E n \in 1..Len(dmdf_read[p]) :
               /\ Len(dmdf_read[p][n].content) = 3
               /\ Field(dmdf_read[p][n].content, "Endpoint") = args[q].endpoint

\* ------------------------------------------------------------- termination
\* Every external operation returns and the process is scheduled: a run that
\* can take a step eventually takes one.
\* Runs in succession; only what decides the path of a run varies: the
\* file list, the skip flag, the machine and the outcomes of the steps.
LiveArgs ==
    [file : FileLists,
     ignore_unsupported : BOOLEAN,
     endpoint : {"https://eus.codesigning.azure.net"},
     account : {"mnr"},
     certificate : {"Profile3"},
     description : {<<>>},
     azure_client_secret : {"secret-one"},
     azure_client_id : ClientIds,
     azure_tenant_id : TenantIds]

StartLive ==
    /\ \A q \in Procs : pc[q] = "idle"
    /\ LaunchWith("p1", LiveArgs, EnvSet)

NextLive == StartLive \/ \E p \in Procs : Step(p)

SpecLive == Init /\ [][NextLive]_vars /\ \A p \in Procs : WF_vars(Step(p))

\* C18: termination.  A run that has not ended can take a step, and every
\* run eventually ends: in success, in the failure main reports, or in the
\* panic of expect.  A run that has ended stays so until its process is gone.
C18_Termination ==
    /\ [](\A p \in Procs : (Running(p) /\ pc[p] \notin Terminal) => ENABLED Step(p))
    /\ \A p \in Procs : Running(p) ~> (pc[p] \in Terminal)
    /\ [][\A p \in Procs : pc[p] \in Terminal => pc'[p] \in {pc[p], "idle"}]_vars

\* A run of three files ended in success.
C18_Witness ==
    \E p \in Procs :
        /\ pc[p] = "Success"
        /\ Len(args[p].file) = 3
        /\ Len(Signs(p)) = 3

====
